---- MODULE Spec2Model ----
(***************************************************************************)
(* Behaviour-tree engine of scripts/pr_behavior_tree/act.py.               *)
(*                                                                         *)
(* A node (Act) owns a list of children and a Python generator             *)
(* (self.iterator = self.tick()).  One advance() of a node is one          *)
(* iterator.next(): the generator runs from where it was suspended to its  *)
(* next yield.  The model keeps, for every node, the position of its       *)
(* generator (pc, idx, num_fails) next to the node's attributes, and       *)
(* computes one next() as the operator Tick, which returns the node after  *)
(* the call, the value produced and the list of next() calls it made.      *)
(*                                                                         *)
(* A next() on a finished generator raises StopIteration (STOP).  A next() *)
(* that never reaches a yield is reported as HANG.                         *)
(***************************************************************************)
EXTENDS Integers, Sequences, FiniteSets, TLC

(***************************************************************************)
(* Bounds of the exploration.                                              *)
(***************************************************************************)
MaxTicks  == 6    \* next() calls of the driver in one activation of the root
MaxIter   == 3    \* largest num_iter given to a bounded Loop
IterCap   == 5    \* the driver stops advancing once a Loop's self.iter gets here
MaxSweeps == 10   \* iterations of a `while True` loop inside one next()

(***************************************************************************)
(* ActStatus, and the two non-status outcomes of iterator.next().          *)
(***************************************************************************)
SUCCESS == "SUCCESS"
FAIL    == "FAIL"
RUN     == "RUN"
STOP    == "STOP"     \* StopIteration: the generator is exhausted
HANG    == "HANG"     \* the call never returns
NONE    == "NONE"
SWEEP   == "SWEEP"    \* log marker: Parallel starts its for loop

Unbounded == -1       \* Loop's num_iter sentinel

Statuses == {SUCCESS, FAIL, RUN}
Terminal == {SUCCESS, FAIL}

(***************************************************************************)
(* Act.__init__ and the constructors of the subclasses.                    *)
(*   ret, num_iter, iter, current_child : attributes of the object         *)
(*        (current_child is the index of the child, 0 for None)            *)
(*   pc, idx, num_fails : the suspended frame of self.iterator             *)
(*        pc = "fresh"  not started                                        *)
(*        pc = "run"    suspended inside `for status in child.iterator`    *)
(*                      of child idx                                       *)
(*        pc = "done"   next() raises StopIteration                        *)
(*   term, extra, calls : history of the current activation: the first     *)
(*        terminal status yielded, whether anything was yielded after it,  *)
(*        and how often a Wrap's function was called since the driver  *)
(*        constructed or reset the tree                                    *)
(***************************************************************************)
Act(kind, children, ret, num_iter) ==
    [kind |-> kind, children |-> children, ret |-> ret,
     num_iter |-> num_iter, iter |-> 1, current_child |-> 0,
     pc |-> "fresh", idx |-> 0, num_fails |-> 0,
     term |-> NONE, extra |-> FALSE, calls |-> 0]

Wrap(wrap_function) == Act("Wrap", <<>>, wrap_function, Unbounded)
Select(children)     == Act("Select", children, NONE, Unbounded)
Sequence(children)   == Act("Sequence", children, NONE, Unbounded)
Parallel(children)   == Act("Parallel", children, NONE, Unbounded)
Loop(children, num_iter) == Act("Loop", children, NONE, num_iter)
IgnoreFail(children) == Act("IgnoreFail", children, NONE, Unbounded)
Not(children)        == Act("Not", children, NONE, Unbounded)

(***************************************************************************)
(* reset().  Act.reset replaces the generator and resets the children;     *)
(* Select and Sequence also clear current_child.  Loop, Parallel,          *)
(* IgnoreFail, Not and Wrap inherit Act.reset: self.iter is not touched.   *)
(***************************************************************************)
RECURSIVE Reset(_)
ActReset(n) ==
    [n EXCEPT !.pc = "fresh", !.idx = 0, !.num_fails = 0,
              !.term = NONE, !.extra = FALSE,
              !.children = [i \in 1..Len(n.children) |-> Reset(n.children[i])]]

SelectReset(n) == ActReset([n EXCEPT !.current_child = 0])

SequenceReset(n) == ActReset([n EXCEPT !.current_child = 0])

Reset(n) ==
    CASE n.kind = "Select"   -> SelectReset(n)
      [] n.kind = "Sequence" -> SequenceReset(n)
      [] OTHER               -> ActReset(n)

(***************************************************************************)
(* The same tree as its constructors build it.                             *)
(***************************************************************************)
RECURSIVE Construct(_)
Construct(n) ==
    Act(n.kind, [i \in 1..Len(n.children) |-> Construct(n.children[i])],
        n.ret, n.num_iter)

(***************************************************************************)
(* Results of one iterator.next() on the node at path p.                   *)
(***************************************************************************)
Event(p, o) == [path |-> p, out |-> o]

\* the generator yields s
Yield(n, s, p, lg) ==
    [n   |-> IF n.term # NONE THEN [n EXCEPT !.extra = TRUE]
             ELSE IF s \in Terminal THEN [n EXCEPT !.term = s] ELSE n,
     out |-> s,
     log |-> Append(lg, Event(p, s))]

\* the call ends without a value: StopIteration, or no return at all
NoValue(n, o, p, lg) == [n |-> n, out |-> o, log |-> Append(lg, Event(p, o))]

Finished(n) == [n EXCEPT !.pc = "done"]

RECURSIVE Tick(_, _)
RECURSIVE SelectFrom(_, _, _, _)
RECURSIVE SequenceFrom(_, _, _, _)
RECURSIVE ParallelLoop(_, _, _, _)
RECURSIVE ParallelSweep(_, _, _, _, _)
RECURSIVE LoopTop(_, _, _, _)
RECURSIVE LoopFrom(_, _, _, _, _)
RECURSIVE IgnoreFailFrom(_, _, _, _)
RECURSIVE NotFrom(_, _, _, _)

(***************************************************************************)
(* Wrap.tick: yield self.fn()                                              *)
(***************************************************************************)
\* Wrap.tick that yields self.fn() on every next(): `while True: yield self.fn()`
WrapTickAgain(n, p) ==
    Yield([n EXCEPT !.calls = @ + 1, !.pc = "run"], n.ret, p, <<>>)

WrapTick(n, p) ==
    Yield(Finished([n EXCEPT !.calls = @ + 1]), n.ret, p, <<>>)

(***************************************************************************)
(* Select.tick, entered at child i (i = 1 on the first next(), the         *)
(* suspended child afterwards).                                            *)
(***************************************************************************)
\* Select.tick that goes on to the next child in the call in which one failed
RECURSIVE SelectFromEager(_, _, _, _)
SelectFromEager(n, i, p, lg) ==
    IF i > Len(n.children)
    THEN Yield(Finished(n), FAIL, p, lg)
    ELSE LET r   == Tick(n.children[i], Append(p, i))
             m   == [n EXCEPT !.current_child = i, !.pc = "run", !.idx = i,
                              !.children[i] = r.n]
             lg2 == lg \o r.log
         IN  CASE r.out = STOP -> SelectFromEager(m, i + 1, p, lg2)
               [] r.out = HANG -> NoValue(m, HANG, p, lg2)
               [] r.out = RUN  -> Yield(m, RUN, p, lg2)
               [] r.out = FAIL -> SelectFromEager(m, i + 1, p, lg2)
               [] OTHER        -> Yield(Finished(m), r.out, p, lg2)

SelectFrom(n, i, p, lg) ==
    IF i > Len(n.children)
    THEN Yield(Finished(n), FAIL, p, lg)
    ELSE LET r   == Tick(n.children[i], Append(p, i))
             m   == [n EXCEPT !.current_child = i, !.pc = "run", !.idx = i,
                              !.children[i] = r.n]
             lg2 == lg \o r.log
         IN  CASE r.out = STOP -> SelectFrom(m, i + 1, p, lg2)
               [] r.out = HANG -> NoValue(m, HANG, p, lg2)
               [] r.out = RUN  -> Yield(m, RUN, p, lg2)
               [] r.out = FAIL -> Yield(m, RUN, p, lg2)
               [] OTHER        -> Yield(Finished(m), r.out, p, lg2)

SelectTick(n, p) == SelectFrom(n, IF n.pc = "fresh" THEN 1 ELSE n.idx, p, <<>>)

(***************************************************************************)
(* Sequence.tick.  `current_child = child` binds a local name: the         *)
(* attribute self.current_child stays None.                                *)
(***************************************************************************)
\* Sequence.tick without the `return` after `yield ActStatus.FAIL`
RECURSIVE SequenceFromNoReturn(_, _, _, _)
SequenceFromNoReturn(n, i, p, lg) ==
    IF i > Len(n.children)
    THEN Yield(Finished(n), SUCCESS, p, lg)
    ELSE LET r   == Tick(n.children[i], Append(p, i))
             m   == [n EXCEPT !.pc = "run", !.idx = i, !.children[i] = r.n]
             lg2 == lg \o r.log
         IN  CASE r.out = STOP -> SequenceFromNoReturn(m, i + 1, p, lg2)
               [] r.out = HANG -> NoValue(m, HANG, p, lg2)
               [] r.out = RUN  -> Yield(m, RUN, p, lg2)
               [] r.out = FAIL -> Yield(m, FAIL, p, lg2)
               [] OTHER        -> Yield(m, RUN, p, lg2)

SequenceFrom(n, i, p, lg) ==
    IF i > Len(n.children)
    THEN Yield(Finished(n), SUCCESS, p, lg)
    ELSE LET r   == Tick(n.children[i], Append(p, i))
             m   == [n EXCEPT !.pc = "run", !.idx = i, !.children[i] = r.n]
             lg2 == lg \o r.log
         IN  CASE r.out = STOP -> SequenceFrom(m, i + 1, p, lg2)
               [] r.out = HANG -> NoValue(m, HANG, p, lg2)
               [] r.out = RUN  -> Yield(m, RUN, p, lg2)
               [] r.out = FAIL -> Yield(Finished(m), FAIL, p, lg2)
               [] OTHER        -> Yield(m, RUN, p, lg2)

SequenceTick(n, p) ==
    SequenceFrom(n, IF n.pc = "fresh" THEN 1 ELSE n.idx, p, <<>>)

(***************************************************************************)
(* Parallel.tick.  ParallelLoop is the head of `while True`, ParallelSweep *)
(* the for loop at child i.  The generator yields only SUCCESS or FAIL, so *)
(* it is never suspended inside the loop: num_fails lives in one next().   *)
(* A StopIteration of a child leaves the for loop (`continue`).  fuel is   *)
(* the number of iterations of `while True` still explored.                *)
(***************************************************************************)
ParallelLoop(n, p, lg, fuel) ==
    IF n.num_fails >= Len(n.children)
    THEN Yield(Finished(n), FAIL, p, lg)
    ELSE IF fuel = 0
    THEN NoValue(n, HANG, p, lg)
    ELSE ParallelSweep(n, 1, p, Append(lg, Event(p, SWEEP)), fuel)

\* Parallel.tick without the `return` after `yield ActStatus.SUCCESS`
RECURSIVE ParallelSweepNoReturn(_, _, _, _, _)
ParallelSweepNoReturn(n, i, p, lg, fuel) ==
    IF i > Len(n.children)
    THEN ParallelLoop(n, p, lg, fuel - 1)
    ELSE LET r   == Tick(n.children[i], Append(p, i))
             m   == [n EXCEPT !.children[i] = r.n]
             lg2 == lg \o r.log
         IN  CASE r.out = STOP    -> ParallelLoop(m, p, lg2, fuel - 1)
               [] r.out = HANG    -> NoValue(m, HANG, p, lg2)
               [] r.out = FAIL    ->
                    ParallelSweepNoReturn([m EXCEPT !.num_fails = @ + 1],
                                          i + 1, p, lg2, fuel)
               [] OTHER           -> ParallelSweepNoReturn(m, i + 1, p, lg2, fuel)

ParallelSweep(n, i, p, lg, fuel) ==
    IF i > Len(n.children)
    THEN ParallelLoop(n, p, lg, fuel - 1)
    ELSE LET r   == Tick(n.children[i], Append(p, i))
             m   == [n EXCEPT !.children[i] = r.n]
             lg2 == lg \o r.log
         IN  CASE r.out = STOP    -> ParallelLoop(m, p, lg2, fuel - 1)
               [] r.out = HANG    -> NoValue(m, HANG, p, lg2)
               [] r.out = SUCCESS -> Yield(Finished(m), SUCCESS, p, lg2)
               [] r.out = FAIL    ->
                    ParallelSweep([m EXCEPT !.num_fails = @ + 1], i + 1, p, lg2, fuel)
               [] OTHER           -> ParallelSweep(m, i + 1, p, lg2, fuel)

ParallelTick(n, p) ==
    ParallelLoop([n EXCEPT !.pc = "run", !.num_fails = 0], p, <<>>, MaxSweeps)

(***************************************************************************)
(* Loop.tick.  LoopTop is the head of `while True`, LoopFrom the for loop  *)
(* at child i.  self.iter starts at 1 and the test is iter >= num_iter.    *)
(***************************************************************************)
\* Loop.tick whose test forgets the sentinel: `if self.iter >= self.num_iter`
LoopTopNoSentinel(n, p, lg, fuel) ==
    IF n.iter >= n.num_iter
    THEN Yield(Finished(n), SUCCESS, p, lg)
    ELSE IF fuel = 0
    THEN NoValue(n, HANG, p, lg)
    ELSE LoopFrom(n, 1, p, lg, fuel)

LoopTop(n, p, lg, fuel) ==
    IF n.num_iter # Unbounded /\ n.iter >= n.num_iter
    THEN Yield(Finished(n), SUCCESS, p, lg)
    ELSE IF fuel = 0
    THEN NoValue(n, HANG, p, lg)
    ELSE LoopFrom(n, 1, p, lg, fuel)

LoopFrom(n, i, p, lg, fuel) ==
    IF i > Len(n.children)
    THEN LoopTop([n EXCEPT !.iter = @ + 1], p, lg, fuel - 1)
    ELSE LET r   == Tick(n.children[i], Append(p, i))
             m   == [n EXCEPT !.pc = "run", !.idx = i, !.children[i] = r.n]
             lg2 == lg \o r.log
         IN  CASE r.out = STOP    ->
                    LoopFrom([m EXCEPT !.children[i] = Reset(r.n)], i + 1, p, lg2, fuel)
               [] r.out = HANG    -> NoValue(m, HANG, p, lg2)
               [] r.out = RUN     -> Yield(m, RUN, p, lg2)
               [] r.out = SUCCESS -> Yield(m, RUN, p, lg2)
               [] OTHER           -> Yield(Finished(m), FAIL, p, lg2)

LoopTick(n, p) ==
    IF n.pc = "fresh"
    THEN LoopTop(n, p, <<>>, MaxSweeps)
    ELSE LoopFrom(n, n.idx, p, <<>>, MaxSweeps)

(***************************************************************************)
(* IgnoreFail.tick: every status of every child is forwarded, FAIL as      *)
(* SUCCESS; nothing returns before the final yield.                        *)
(***************************************************************************)
\* IgnoreFail.tick without the remapping: every status is forwarded as it is
RECURSIVE IgnoreFailFromForward(_, _, _, _)
IgnoreFailFromForward(n, i, p, lg) ==
    IF i > Len(n.children)
    THEN Yield(Finished(n), SUCCESS, p, lg)
    ELSE LET r   == Tick(n.children[i], Append(p, i))
             m   == [n EXCEPT !.pc = "run", !.idx = i, !.children[i] = r.n]
             lg2 == lg \o r.log
         IN  CASE r.out = STOP -> IgnoreFailFromForward(m, i + 1, p, lg2)
               [] r.out = HANG -> NoValue(m, HANG, p, lg2)
               [] OTHER        -> Yield(m, r.out, p, lg2)

IgnoreFailFrom(n, i, p, lg) ==
    IF i > Len(n.children)
    THEN Yield(Finished(n), SUCCESS, p, lg)
    ELSE LET r   == Tick(n.children[i], Append(p, i))
             m   == [n EXCEPT !.pc = "run", !.idx = i, !.children[i] = r.n]
             lg2 == lg \o r.log
         IN  CASE r.out = STOP -> IgnoreFailFrom(m, i + 1, p, lg2)
               [] r.out = HANG -> NoValue(m, HANG, p, lg2)
               [] r.out = FAIL -> Yield(m, SUCCESS, p, lg2)
               [] OTHER        -> Yield(m, r.out, p, lg2)

IgnoreFailTick(n, p) ==
    IgnoreFailFrom(n, IF n.pc = "fresh" THEN 1 ELSE n.idx, p, <<>>)

(***************************************************************************)
(* Not.tick: as IgnoreFail.tick, with SUCCESS and FAIL exchanged.          *)
(***************************************************************************)
\* Not.tick without the branch `elif status == ActStatus.SUCCESS`
RECURSIVE NotFromNoSwap(_, _, _, _)
NotFromNoSwap(n, i, p, lg) ==
    IF i > Len(n.children)
    THEN Yield(Finished(n), SUCCESS, p, lg)
    ELSE LET r   == Tick(n.children[i], Append(p, i))
             m   == [n EXCEPT !.pc = "run", !.idx = i, !.children[i] = r.n]
             lg2 == lg \o r.log
         IN  CASE r.out = STOP    -> NotFromNoSwap(m, i + 1, p, lg2)
               [] r.out = HANG    -> NoValue(m, HANG, p, lg2)
               [] r.out = FAIL    -> Yield(m, SUCCESS, p, lg2)
               [] OTHER           -> Yield(m, r.out, p, lg2)

NotFrom(n, i, p, lg) ==
    IF i > Len(n.children)
    THEN Yield(Finished(n), SUCCESS, p, lg)
    ELSE LET r   == Tick(n.children[i], Append(p, i))
             m   == [n EXCEPT !.pc = "run", !.idx = i, !.children[i] = r.n]
             lg2 == lg \o r.log
         IN  CASE r.out = STOP    -> NotFrom(m, i + 1, p, lg2)
               [] r.out = HANG    -> NoValue(m, HANG, p, lg2)
               [] r.out = FAIL    -> Yield(m, SUCCESS, p, lg2)
               [] r.out = SUCCESS -> Yield(m, FAIL, p, lg2)
               [] OTHER           -> Yield(m, r.out, p, lg2)

NotTick(n, p) == NotFrom(n, IF n.pc = "fresh" THEN 1 ELSE n.idx, p, <<>>)

(***************************************************************************)
(* node.iterator.next()                                                    *)
(***************************************************************************)
Tick(n, p) ==
    CASE n.pc = "done"         -> NoValue(n, STOP, p, <<>>)
      [] n.kind = "Wrap"       -> WrapTick(n, p)
      [] n.kind = "Select"     -> SelectTick(n, p)
      [] n.kind = "Sequence"   -> SequenceTick(n, p)
      [] n.kind = "Parallel"   -> ParallelTick(n, p)
      [] n.kind = "Loop"       -> LoopTick(n, p)
      [] n.kind = "IgnoreFail" -> IgnoreFailTick(n, p)
      [] OTHER                 -> NotTick(n, p)

(***************************************************************************)
(* suspend() and resume(): the nodes on which the call is made.  Select    *)
(* forwards to self.current_child, Parallel to every child; the other      *)
(* classes test self.current_child, which they never assign; Wrap inherits *)
(* the empty Act.suspend.  No attribute is written by either method.       *)
(***************************************************************************)
RECURSIVE Suspend(_, _)
Suspend(n, p) ==
    {p} \cup
    CASE n.kind = "Wrap"     -> {}
      [] n.kind = "Parallel" ->
           UNION {Suspend(n.children[i], Append(p, i)) : i \in 1..Len(n.children)}
      [] OTHER ->
           IF n.current_child # 0
           THEN Suspend(n.children[n.current_child], Append(p, n.current_child))
           ELSE {}

Resume(n, p) == Suspend(n, p)

(***************************************************************************)
(* The trees explored: the two leaves, every composite over at most two    *)
(* leaves, and every composite whose children are one such node, a leaf    *)
(* next to one such node (either order), or three leaves.                  *)
(***************************************************************************)
NumIters == {Unbounded} \cup (0..MaxIter)

Leaves == {Wrap(SUCCESS), Wrap(FAIL)}

Composites(lists) ==
    {Select(c) : c \in lists} \cup {Sequence(c) : c \in lists}
    \cup {Parallel(c) : c \in lists} \cup {IgnoreFail(c) : c \in lists}
    \cup {Not(c) : c \in lists}
    \cup {Loop(c[1], c[2]) : c \in lists \X NumIters}

LeafLists ==
    {<<>>} \cup {<<a>> : a \in Leaves} \cup {<<a, b>> : a, b \in Leaves}

Inner == Leaves \cup Composites(LeafLists)

RootLists ==
    {<<>>} \cup {<<a>> : a \in Inner}
    \cup {<<a, b>> : a \in Leaves, b \in Inner}
    \cup {<<a, b>> : a \in Inner, b \in Leaves}
    \cup {<<a, b, c>> : a, b, c \in Leaves}

Trees == Leaves \cup Composites(RootLists)

(***************************************************************************)
(* State.                                                                  *)
(*   tree       the root and everything below it                           *)
(*   out, log   result of the driver's last tree.iterator.next() and the   *)
(*              next() calls made during it, in order of completion        *)
(*   hist       results of the driver's calls since construction or the    *)
(*              last reset()                                               *)
(*   ref, refOut  a copy of the tree constructed anew at every reset() and *)
(*              advanced in step with it                                   *)
(*   called     nodes reached by a suspend() or resume() that was the last *)
(*              operation ({} after any other operation)                   *)
(*   suspended  suspend() was called on the root after the last resume()   *)
(*   lastOp     "init", or the last of advance and reset                   *)
(***************************************************************************)
VARIABLES tree, out, log, hist, ref, refOut, called, suspended, lastOp,
          nodes, own, defaults, lastEdit

treeVars == <<tree, out, log, hist, ref, refOut, called, suspended, lastOp>>

listVars == <<nodes, own, defaults, lastEdit>>

vars == <<tree, out, log, hist, ref, refOut, called, suspended, lastOp,
          nodes, own, defaults, lastEdit>>

(***************************************************************************)
(* The list objects behind self.children.  The default value [] of the     *)
(* children parameter is evaluated once, when the def statement of a       *)
(* class's __init__ runs: defaults[kind] is that one list object.          *)
(* nodes[i] is the i-th node constructed, own[i] the list object created   *)
(* for it when it was not constructed on the default.                      *)
(***************************************************************************)
Classes == {"Select", "Sequence", "Parallel", "Loop", "IgnoreFail", "Not", "Wrap"}

NoObjects ==
    /\ nodes = <<>>
    /\ own = <<>>
    /\ defaults = [k \in Classes |-> <<>>]
    /\ lastEdit = 0

\* largest self.iter in the tree
RECURSIVE MaxIterIn(_)
MaxIterIn(n) ==
    LET below == {MaxIterIn(n.children[i]) : i \in 1..Len(n.children)}
        all   == below \cup {n.iter}
    IN  CHOOSE x \in all : \A y \in all : y <= x

\* the call counters start again with every activation of the root
RECURSIVE ClearCalls(_)
ClearCalls(n) ==
    [n EXCEPT !.calls = 0,
              !.children = [i \in 1..Len(n.children) |-> ClearCalls(n.children[i])]]

Init ==
    /\ tree \in Trees
    /\ ref = tree
    /\ out = NONE
    /\ refOut = NONE
    /\ log = <<>>
    /\ hist = <<>>
    /\ called = {}
    /\ suspended = FALSE
    /\ lastOp = "init"
    /\ NoObjects

\* the driver: one tree.iterator.next()
Advance ==
    /\ out # HANG
    /\ Len(hist) < MaxTicks
    /\ MaxIterIn(tree) < IterCap
    /\ LET r == Tick(tree, <<>>)
           q == Tick(ref, <<>>)
       IN  /\ tree' = r.n
           /\ out' = r.out
           /\ log' = r.log
           /\ hist' = Append(hist, r.out)
           /\ ref' = q.n
           /\ refOut' = q.out
    /\ called' = {}
    /\ lastOp' = "advance"
    /\ UNCHANGED suspended
    /\ UNCHANGED listVars

\* the driver: tree.reset()
DoReset ==
    /\ out # HANG
    /\ tree' = ClearCalls(Reset(tree))
    /\ ref' = Construct(tree)
    /\ out' = NONE
    /\ refOut' = NONE
    /\ log' = <<>>
    /\ hist' = <<>>
    /\ called' = {}
    /\ lastOp' = "reset"
    /\ UNCHANGED suspended
    /\ UNCHANGED listVars

\* tree.suspend() as it would be if suspending rewound the tree
DoSuspendResets ==
    /\ out # HANG
    /\ called' = Suspend(tree, <<>>)
    /\ suspended' = TRUE
    /\ tree' = Reset(tree)
    /\ UNCHANGED <<out, log, hist, ref, refOut, lastOp>>
    /\ UNCHANGED listVars

\* the driver: tree.suspend()
DoSuspend ==
    /\ out # HANG
    /\ called' = Suspend(tree, <<>>)
    /\ suspended' = TRUE
    /\ UNCHANGED <<tree, out, log, hist, ref, refOut, lastOp>>
    /\ UNCHANGED listVars

\* the driver: tree.resume()
DoResume ==
    /\ out # HANG
    /\ called' = Resume(tree, <<>>)
    /\ suspended' = FALSE
    /\ UNCHANGED <<tree, out, log, hist, ref, refOut, lastOp>>
    /\ UNCHANGED listVars

Next == Advance \/ DoReset \/ DoSuspend \/ DoResume

Spec == Init /\ [][Next]_vars

TypeOK ==
    /\ out \in Statuses \cup {STOP, HANG, NONE}
    /\ Len(hist) <= MaxTicks
    /\ lastOp \in {"init", "advance", "reset"}

(***************************************************************************)
(* Reading the log of the last call.                                       *)
(***************************************************************************)
Kids == 1..Len(tree.children)

\* positions of the next() calls made on child i of the root
CallsOf(i) == {k \in DOMAIN log : log[k].path = <<i>> /\ log[k].out # SWEEP}

\* positions at which the root, a Parallel, starts a sweep
Sweeps == {k \in DOMAIN log : log[k] = Event(<<>>, SWEEP)}

\* first position after k at which the sweep containing k is over
SweepEnd(k) ==
    LET later == {m \in Sweeps : m > k}
    IN  IF later = {} THEN Len(log)
        ELSE CHOOSE m \in later : \A x \in later : m <= x

SweepStart(k) ==
    LET earlier == {m \in Sweeps : m < k}
    IN  CHOOSE m \in earlier : \A x \in earlier : x <= m

\* child j has reported a terminal status, or was found exhausted, before k
OverBefore(j, k) ==
    \E q \in CallsOf(j) : q < k /\ log[q].out \in Terminal \cup {STOP}

RECURSIVE NoExtra(_)
NoExtra(n) ==
    ~n.extra /\ \A i \in 1..Len(n.children) : NoExtra(n.children[i])

RECURSIVE Untouched(_)
Untouched(n) ==
    /\ n.pc = "fresh"
    /\ n.calls = 0
    /\ \A i \in 1..Len(n.children) : Untouched(n.children[i])

\* the fresh node yields RUN some number of times (fewer than k) and then FAIL
RECURSIVE RunsToFail(_, _)
RunsToFail(n, k) ==
    /\ k > 0
    /\ LET r == Tick(n, <<>>)
       IN  r.out = FAIL \/ (r.out = RUN /\ RunsToFail(r.n, k - 1))

IsLeaf(n, s) == n.kind = "Wrap" /\ n.ret = s

(***************************************************************************)
(* C1.  Exhaustion: within one activation a node yields at most one        *)
(* terminal status; after SUCCESS or FAIL every further next() yields no   *)
(* status.  Stated for every node of the tree (extra) and for the          *)
(* driver's view of the root (hist).                                       *)
(***************************************************************************)
C1_Exhaustion ==
    /\ NoExtra(tree)
    /\ \A i, j \in 1..Len(hist) :
          (i < j /\ hist[i] \in Terminal) => hist[j] \notin Statuses

(***************************************************************************)
(* C2.  Parallel makes one sweep per advance(): no child is advanced twice *)
(* in one call, and a call in which no child succeeded and fewer children  *)
(* failed than there are children returns RUN.                             *)
(***************************************************************************)
C2_ParallelOneSweep ==
    (tree.kind = "Parallel" /\ lastOp = "advance" /\ out # STOP) =>
        /\ \A i \in Kids : Cardinality(CallsOf(i)) <= 1
        /\ ( (/\ \A i \in Kids : \A k \in CallsOf(i) : log[k].out # SUCCESS
              /\ tree.num_fails < Len(tree.children))
             => out = RUN )

(***************************************************************************)
(* C3.  A Parallel whose children all report FAIL after finitely many RUN  *)
(* never hangs in a call and never succeeds.                               *)
(***************************************************************************)
C3_ParallelAllFailTerminates ==
    (/\ tree.kind = "Parallel"
     /\ \A i \in Kids : RunsToFail(Construct(tree.children[i]), MaxSweeps))
    => (out # HANG /\ tree.term # SUCCESS)

(***************************************************************************)
(* C4.  Parallel skips exhausted children without disturbing the sweep: a  *)
(* child that has reported a terminal status yields nothing afterwards,    *)
(* and in a sweep that meets an exhausted child every other child that is  *)
(* not over yet is advanced exactly once.                                  *)
(***************************************************************************)
C4_ParallelSkipsExhausted ==
    (tree.kind = "Parallel" /\ lastOp = "advance") =>
        /\ \A j \in Kids : \A q, k \in CallsOf(j) :
              (q < k /\ log[q].out \in Terminal) => log[k].out \notin Statuses
        /\ \A i \in Kids : \A k \in CallsOf(i) :
              (log[k].out = STOP) =>
                 \A j \in Kids \ {i} :
                    OverBefore(j, SweepStart(k)) \/
                    Cardinality({q \in CallsOf(j) :
                                   SweepStart(k) < q /\ q <= SweepEnd(k)}) = 1

(***************************************************************************)
(* C5.  A Loop with num_iter = N >= 1 over leaves that succeed has called  *)
(* each leaf N times when it yields SUCCESS.                               *)
(***************************************************************************)
C5_LoopPassCount ==
    (/\ tree.kind = "Loop"
     /\ tree.num_iter >= 1
     /\ Len(tree.children) >= 1
     /\ \A i \in Kids : IsLeaf(tree.children[i], SUCCESS)
     /\ tree.term = SUCCESS)
    => \A i \in Kids : tree.children[i].calls = tree.num_iter

(***************************************************************************)
(* C6.  reset() is fully restorative: after a reset the tree yields what a *)
(* freshly constructed copy of it yields, call for call.                   *)
(***************************************************************************)
C6_ResetRestores == out = refOut

(***************************************************************************)
(* C7.  A Selector all of whose children terminated with FAIL never yields *)
(* SUCCESS, and it terminates with FAIL; over the leaves [F, F, S] it      *)
(* yields RUN at least once and then SUCCESS.                              *)
(***************************************************************************)
C7_SelectorAllFail ==
    /\ (tree.kind = "Select" /\ \A i \in Kids : tree.children[i].term = FAIL)
          => (tree.term # SUCCESS /\ (tree.pc = "done" => tree.term = FAIL))
    /\ (/\ tree.kind = "Select"
        /\ Len(tree.children) = 3
        /\ IsLeaf(tree.children[1], FAIL)
        /\ IsLeaf(tree.children[2], FAIL)
        /\ IsLeaf(tree.children[3], SUCCESS)
        /\ tree.term = SUCCESS)
          => (hist[1] = RUN /\ \E k \in 2..Len(hist) :
                  /\ hist[k] = SUCCESS
                  /\ \A q \in 1..(k - 1) : hist[q] = RUN)

(***************************************************************************)
(* C8.  Sequence short-circuit: the call in which a child reports FAIL     *)
(* yields FAIL and ends the generator, and no later sibling is touched in  *)
(* that activation; a call in which a child reports SUCCESS yields RUN,    *)
(* and SUCCESS is yielded once every child is exhausted.                   *)
(***************************************************************************)
C8_SequenceShortCircuit ==
    tree.kind = "Sequence" =>
        /\ tree.term = FAIL =>
              \A j \in Kids : j > tree.idx => Untouched(tree.children[j])
        /\ lastOp = "advance" =>
              /\ (\E i \in Kids : \E k \in CallsOf(i) : log[k].out = FAIL)
                    => (out = FAIL /\ tree.pc = "done")
              /\ (\E i \in Kids : \E k \in CallsOf(i) : log[k].out = SUCCESS)
                    => out = RUN
              /\ out = SUCCESS =>
                    /\ \A i \in Kids : tree.children[i].pc = "done"
                    /\ \A q \in 1..(Len(hist) - 1) : hist[q] = RUN

\* a Sequence has yielded FAIL at a child that has a later sibling
C8_Witness ==
    /\ tree.kind = "Sequence"
    /\ tree.term = FAIL
    /\ out = FAIL
    /\ tree.idx < Len(tree.children)

(***************************************************************************)
(* C9.  Between suspend() and resume() on a composite, advance() on it     *)
(* changes none of its children.                                           *)
(***************************************************************************)
C9_SuspendGates ==
    [][(/\ suspended
        /\ tree.kind # "Wrap"
        /\ Len(hist') = Len(hist) + 1)
       => tree'.children = tree.children]_vars

(***************************************************************************)
(* C10.  suspend() and resume() on a Sequence, Loop, IgnoreFail or Not     *)
(* that is suspended inside a child reach that child and no other.         *)
(***************************************************************************)
C10_SuspendReachesChild ==
    (/\ called # {}
     /\ tree.kind \in {"Sequence", "Loop", "IgnoreFail", "Not"}
     /\ tree.pc = "run")
    => {p \in called : Len(p) = 1} = {<<tree.idx>>}

(***************************************************************************)
(* C11.  Degenerate configurations terminate: the first next() on a        *)
(* composite without children, or on a Loop with num_iter = 0, returns.    *)
(***************************************************************************)
C11_DegenerateTerminates ==
    (/\ tree.kind # "Wrap"
     /\ Len(tree.children) = 0 \/ (tree.kind = "Loop" /\ tree.num_iter = 0))
    => out # HANG

(***************************************************************************)
(* C13.  An unbounded Loop never yields SUCCESS: no such Loop in the tree  *)
(* has terminated with SUCCESS, the driver never gets SUCCESS from one,    *)
(* and the call in which a child reports FAIL yields FAIL and ends it.     *)
(***************************************************************************)
RECURSIVE NoUnboundedSuccess(_)
NoUnboundedSuccess(n) ==
    /\ (n.kind = "Loop" /\ n.num_iter = Unbounded) => n.term # SUCCESS
    /\ \A i \in 1..Len(n.children) : NoUnboundedSuccess(n.children[i])

C13_UnboundedLoopNeverSucceeds ==
    /\ NoUnboundedSuccess(tree)
    /\ (tree.kind = "Loop" /\ tree.num_iter = Unbounded) =>
          /\ \A k \in 1..Len(hist) : hist[k] # SUCCESS
          /\ tree.pc = "done" => tree.term = FAIL
          /\ lastOp = "advance" =>
                ((\E i \in Kids : \E k \in CallsOf(i) : log[k].out = FAIL)
                    <=> out = FAIL)

\* an unbounded Loop has yielded RUN for a child that succeeded, then FAIL
C13_Witness ==
    /\ tree.kind = "Loop"
    /\ tree.num_iter = Unbounded
    /\ Len(hist) >= 2
    /\ hist[1] = RUN
    /\ out = FAIL

(***************************************************************************)
(* C14.  Parallel, first success wins: the call in which a child reports   *)
(* SUCCESS yields SUCCESS whatever the other children reported, that       *)
(* report is the last next() made on any child, and later calls make none. *)
(***************************************************************************)
ChildCalls == {k \in DOMAIN log : Len(log[k].path) = 1 /\ log[k].out # SWEEP}

C14_ParallelFirstSuccess ==
    (tree.kind = "Parallel" /\ lastOp = "advance") =>
        /\ \A k \in ChildCalls :
              log[k].out = SUCCESS =>
                 /\ out = SUCCESS
                 /\ tree.pc = "done"
                 /\ \A q \in ChildCalls : q <= k
        /\ out = SUCCESS => \E k \in ChildCalls : log[k].out = SUCCESS
        /\ (tree.term = SUCCESS /\ out # SUCCESS) =>
              (out = STOP /\ ChildCalls = {})

\* a Parallel has succeeded in a call in which another child failed or ran
C14_Witness ==
    /\ tree.kind = "Parallel"
    /\ out = SUCCESS
    /\ \E k \in ChildCalls : log[k].out \in {FAIL, RUN}

(***************************************************************************)
(* C16.  IgnoreFail never reports FAIL: no IgnoreFail in the tree has      *)
(* terminated with FAIL, the driver never gets FAIL from one, and          *)
(* IgnoreFail over one failing leaf yields SUCCESS first.                  *)
(***************************************************************************)
RECURSIVE NoIgnoreFailFailed(_)
NoIgnoreFailFailed(n) ==
    /\ n.kind = "IgnoreFail" => n.term # FAIL
    /\ \A i \in 1..Len(n.children) : NoIgnoreFailFailed(n.children[i])

C16_IgnoreFailNeverFails ==
    /\ NoIgnoreFailFailed(tree)
    /\ tree.kind = "IgnoreFail" =>
          /\ \A k \in 1..Len(hist) : hist[k] # FAIL
          /\ (/\ Len(tree.children) = 1
              /\ IsLeaf(tree.children[1], FAIL)
              /\ Len(hist) >= 1) => hist[1] = SUCCESS

\* an IgnoreFail has yielded SUCCESS in a call in which its child reported FAIL
C16_Witness ==
    /\ tree.kind = "IgnoreFail"
    /\ out = SUCCESS
    /\ \E k \in ChildCalls : log[k].out = FAIL

(***************************************************************************)
(* C17.  Not over a single child: RUN is forwarded, and the first terminal *)
(* status of the Not is the opposite of the first terminal status of the   *)
(* child; over one succeeding leaf it yields FAIL first.                   *)
(***************************************************************************)
Swap(s) ==
    CASE s = SUCCESS -> FAIL
      [] s = FAIL    -> SUCCESS
      [] OTHER       -> s

C17_NotSwaps ==
    (tree.kind = "Not" /\ Len(tree.children) = 1) =>
        /\ tree.term = Swap(tree.children[1].term)
        /\ lastOp = "advance" =>
              \A k \in ChildCalls : log[k].out = RUN => out = RUN
        /\ (IsLeaf(tree.children[1], SUCCESS) /\ Len(hist) >= 1)
              => hist[1] = FAIL

\* a Not has terminated with FAIL over a child that ran before it succeeded
C17_Witness ==
    /\ tree.kind = "Not"
    /\ Len(tree.children) = 1
    /\ Len(hist) >= 2
    /\ hist[1] = RUN
    /\ tree.children[1].term = SUCCESS
    /\ tree.term = FAIL

(***************************************************************************)
(* C18.  A Wrap is single-shot: in one activation it yields once, what its *)
(* function returns and never RUN, and its function is called once; a leaf *)
(* that no Loop resets is called at most once between two resets of the    *)
(* root, a leaf child of a root Loop at most once per pass.                *)
(***************************************************************************)
RECURSIVE LeavesSingleShot(_, _)
LeavesSingleShot(n, underLoop) ==
    IF n.kind = "Wrap"
    THEN /\ ~n.extra
         /\ n.term \in {NONE, n.ret}
         /\ n.pc \in {"fresh", "done"}
         /\ n.pc = "done" <=> n.term = n.ret
         /\ ~underLoop => n.calls = (IF n.pc = "done" THEN 1 ELSE 0)
    ELSE \A i \in 1..Len(n.children) :
            LeavesSingleShot(n.children[i], underLoop \/ n.kind = "Loop")

C18_LeafSingleShot ==
    /\ LeavesSingleShot(tree, FALSE)
    /\ tree.kind = "Wrap" =>
          \A k \in 1..Len(hist) :
             hist[k] = (IF k = 1 THEN tree.ret ELSE STOP)
    /\ tree.kind = "Loop" =>
          \A i \in Kids :
             tree.children[i].kind = "Wrap" =>
                tree.children[i].calls <= tree.iter

\* a leaf has been called in two passes of a Loop
C18_Witness ==
    /\ tree.kind = "Loop"
    /\ \E i \in Kids :
          /\ tree.children[i].kind = "Wrap"
          /\ tree.children[i].calls >= 2

(***************************************************************************)
(* C20.  Selector step ordering: one call gets a status from at most one   *)
(* child, yields RUN for a child's RUN or FAIL and SUCCESS for its         *)
(* SUCCESS; a child is started only when all children before it are        *)
(* exhausted and have failed; after SUCCESS no child is advanced.          *)
(***************************************************************************)
C20_SelectorOrdering ==
    tree.kind = "Select" =>
        /\ lastOp = "advance" =>
              /\ Cardinality({k \in ChildCalls : log[k].out \in Statuses}) <= 1
              /\ \A k \in ChildCalls :
                    /\ log[k].out \in {RUN, FAIL} => out = RUN
                    /\ log[k].out = SUCCESS => out = SUCCESS
              /\ (tree.term = SUCCESS /\ out # SUCCESS) =>
                    (out = STOP /\ ChildCalls = {})
        /\ \A j \in Kids :
              tree.children[j].pc # "fresh" =>
                 \A i \in 1..(j - 1) :
                    /\ tree.children[i].pc = "done"
                    /\ tree.children[i].term = FAIL

\* a Selector has succeeded with a child that has a failed child before it
C20_Witness ==
    /\ tree.kind = "Select"
    /\ tree.idx >= 2
    /\ out = SUCCESS

(***************************************************************************)
(* A second family of trees: a Parallel over any two of the inner nodes,   *)
(* so that both children can be composites.                                *)
(***************************************************************************)
PairTrees == {Parallel(<<a, b>>) : a, b \in Inner}

InitPairs ==
    /\ tree \in PairTrees
    /\ ref = tree
    /\ out = NONE
    /\ refOut = NONE
    /\ log = <<>>
    /\ hist = <<>>
    /\ called = {}
    /\ suspended = FALSE
    /\ lastOp = "init"
    /\ NoObjects

SpecPairs == InitPairs /\ [][Next]_vars

(***************************************************************************)
(* C15.  Parallel fails only when all children failed: when a Parallel     *)
(* with children yields FAIL, every one of its children has reported FAIL  *)
(* in that activation.                                                     *)
(***************************************************************************)
C15_ParallelFailsOnlyIfAllFailed ==
    (/\ tree.kind = "Parallel"
     /\ Len(tree.children) >= 1
     /\ lastOp = "advance"
     /\ out = FAIL)
    => \A i \in Kids : \E k \in CallsOf(i) : log[k].out = FAIL


(***************************************************************************)
(* The statuses of the next Horizon calls of n.iterator.next(), cut at the *)
(* first call that does not return.                                        *)
(***************************************************************************)
Horizon == 3

RECURSIVE Stream(_, _)
Stream(n, k) ==
    IF k = 0 THEN <<>>
    ELSE LET r == Tick(n, <<>>)
         IN  IF r.out = HANG THEN <<HANG>>
             ELSE <<r.out>> \o Stream(r.n, k - 1)

(***************************************************************************)
(* C19: suspend() and resume() called mid-run, with no advance in between, *)
(* leave the status sequence the node goes on to produce as it was: every  *)
(* suspend() or resume() step taken while the root's generator is running  *)
(* keeps the statuses of the following calls of next() unchanged.          *)
(***************************************************************************)
C19_SuspendResumeRoundTrip ==
    [][(called' # {} /\ tree.pc = "run")
         => Stream(tree', Horizon) = Stream(tree, Horizon)]_vars

\* resume() has just returned on a tree whose generator is mid-run and has
\* statuses left to produce
C19_Witness ==
    /\ called # {}
    /\ ~suspended
    /\ tree.pc = "run"
    /\ Len(hist) >= 1
    /\ Len(Stream(tree, Horizon)) = Horizon
    /\ Stream(tree, Horizon)[1] \in Statuses


(***************************************************************************)
(* Construction and editing of nodes, on the list objects.                 *)
(***************************************************************************)
MaxNodes == 3
MaxChildren == 2

\* self.children of the i-th node
ChildrenOf(i) ==
    IF nodes[i].default THEN defaults[nodes[i].kind] ELSE own[i]

\* the number of entries of all the list objects
RECURSIVE SumLen(_)
SumLen(lists) ==
    IF lists = <<>> THEN 0 ELSE Len(Head(lists)) + SumLen(Tail(lists))

RECURSIVE SumDefaults(_)
SumDefaults(ks) ==
    IF ks = {} THEN 0
    ELSE LET k == CHOOSE x \in ks : TRUE
         IN  Len(defaults[k]) + SumDefaults(ks \ {k})

TotalChildren == SumLen(own) + SumDefaults(Classes)

\* list.remove(c): the list without the first entry equal to c
RemoveFirst(l, c) ==
    LET j == CHOOSE x \in 1..Len(l) : l[x] = c /\ \A y \in 1..(x - 1) : l[y] # c
    IN  SubSeq(l, 1, j - 1) \o SubSeq(l, j + 1, Len(l))

\* kind(): no children argument, self.children is the default of kind.__init__
NewDefault(kind) ==
    /\ Len(nodes) < MaxNodes
    /\ nodes' = Append(nodes, [kind |-> kind, default |-> TRUE])
    /\ own' = Append(own, <<>>)
    /\ lastEdit' = 0
    /\ UNCHANGED defaults
    /\ UNCHANGED treeVars

\* kind(children = None), or kind([]): a list object of the node's own
NewOwn(kind) ==
    /\ Len(nodes) < MaxNodes
    /\ nodes' = Append(nodes, [kind |-> kind, default |-> FALSE])
    /\ own' = Append(own, <<>>)
    /\ lastEdit' = 0
    /\ UNCHANGED defaults
    /\ UNCHANGED treeVars

\* nodes[a].add_child(nodes[c])
AddChild(a, c) ==
    /\ TotalChildren < MaxChildren
    /\ IF nodes[a].default
       THEN /\ defaults' = [defaults EXCEPT ![nodes[a].kind] = Append(@, c)]
            /\ UNCHANGED own
       ELSE /\ own' = [own EXCEPT ![a] = Append(@, c)]
            /\ UNCHANGED defaults
    /\ lastEdit' = a
    /\ UNCHANGED nodes
    /\ UNCHANGED treeVars

\* nodes[a].remove_child(nodes[c]); list.remove raises ValueError when c is
\* not in the list
RemoveChild(a, c) ==
    /\ \E j \in 1..Len(ChildrenOf(a)) : ChildrenOf(a)[j] = c
    /\ IF nodes[a].default
       THEN /\ defaults' = [defaults EXCEPT ![nodes[a].kind] = RemoveFirst(@, c)]
            /\ UNCHANGED own
       ELSE /\ own' = [own EXCEPT ![a] = RemoveFirst(@, c)]
            /\ UNCHANGED defaults
    /\ lastEdit' = a
    /\ UNCHANGED nodes
    /\ UNCHANGED treeVars

\* no iterator is advanced here: the tree variables stay those of a lone Select
InitLists ==
    /\ tree = Select(<<>>)
    /\ ref = tree
    /\ out = NONE
    /\ refOut = NONE
    /\ log = <<>>
    /\ hist = <<>>
    /\ called = {}
    /\ suspended = FALSE
    /\ lastOp = "init"
    /\ NoObjects

\* the classes instantiated in the runs explored
Built == {"Select", "Sequence", "Wrap"}

NextLists ==
    \/ \E kind \in Built : NewDefault(kind)
    \/ \E kind \in Built : NewOwn(kind)
    \/ \E a, c \in DOMAIN nodes : AddChild(a, c)
    \/ \E a, c \in DOMAIN nodes : RemoveChild(a, c)

SpecLists == InitLists /\ [][NextLists]_vars

(***************************************************************************)
(* C12: independent default child lists.  add_child or remove_child on a   *)
(* node constructed without a children argument leaves the children of     *)
(* every other node unchanged.                                             *)
(***************************************************************************)
C12_IndependentDefaultLists ==
    [][\A a \in DOMAIN nodes :
         (lastEdit' = a /\ nodes[a].default)
           => \A b \in DOMAIN nodes \ {a} :
                  (IF nodes'[b].default THEN defaults'[nodes'[b].kind] ELSE own'[b])
                    = ChildrenOf(b)]_vars

====
